---- MODULE Spec2Model ----
(***************************************************************************)
(* Project materialization pipeline of the code-generation agent:          *)
(*   utils.parse_files_json / strip_code_fences, Agent._relocate_into_dir, *)
(*   Agent._ensure_init_chain_for_path, Agent._enforce_same_folder_imports,*)
(*   Tools._safe / write / read / generate_requirements_txt_from_imports   *)
(*   and Agent.create_program.                                             *)
(*                                                                         *)
(* Path strings are sequences of one-character strings.  File contents and *)
(* the model's draft are sequences of lexical tokens (Text).  The disk is  *)
(* a function from resolved absolute paths (sequences of path segments)    *)
(* to Text; directories are the proper prefixes of the files present.      *)
(***************************************************************************)
EXTENDS Integers, Sequences, FiniteSets, TLC

VARIABLES pc, module_path, plan, draft_raw, files_map, idx, written_paths,
          model_req, result, disk, writes, reloc, tool

vars == <<pc, module_path, plan, draft_raw, files_map, idx, written_paths,
          model_req, result, disk, writes, reloc, tool>>

runVars == <<pc, module_path, plan, draft_raw, files_map, idx, written_paths,
             model_req, result, disk, writes>>

(***************************************************************************)
(* Character strings (str methods used by the source)                      *)
(***************************************************************************)
StartsWith(s, pre) ==
    /\ Len(pre) <= Len(s)
    /\ SubSeq(s, 1, Len(pre)) = pre

EndsWith(s, suf) ==
    /\ Len(suf) <= Len(s)
    /\ SubSeq(s, Len(s) - Len(suf) + 1, Len(s)) = suf

Contains(s, c) == \E i \in 1..Len(s) : s[i] = c

RECURSIVE LStripSet(_, _)
LStripSet(s, cs) ==
    IF s # <<>> /\ Head(s) \in cs THEN LStripSet(Tail(s), cs) ELSE s

RECURSIVE RStripSet(_, _)
RStripSet(s, cs) ==
    IF s # <<>> /\ s[Len(s)] \in cs
    THEN RStripSet(SubSeq(s, 1, Len(s) - 1), cs)
    ELSE s

\* str.strip() / str.rstrip() with no argument: whitespace characters
WsChars == {" ", "\t", "\n"}

StripWs(s) == RStripSet(LStripSet(s, WsChars), WsChars)

\* str.replace("\\", "/")
ReplaceBackslash(s) == [i \in 1..Len(s) |-> IF s[i] = "\\" THEN "/" ELSE s[i]]

\* str.split("/") : the segments between separators (empty segments kept)
RECURSIVE SplitSlash(_)
SplitSlash(s) ==
    IF ~Contains(s, "/") THEN <<s>>
    ELSE LET i == CHOOSE j \in 1..Len(s) :
                      s[j] = "/" /\ \A k \in 1..(j - 1) : s[k] # "/"
         IN <<SubSeq(s, 1, i - 1)>> \o SplitSlash(SubSeq(s, i + 1, Len(s)))

RECURSIVE JoinSlash(_)
JoinSlash(segs) ==
    IF segs = <<>> THEN <<>>
    ELSE IF Len(segs) = 1 THEN segs[1]
    ELSE segs[1] \o <<"/">> \o JoinSlash(Tail(segs))

RECURSIVE SelectSegs(_, _)
SelectSegs(segs, drop) ==
    IF segs = <<>> THEN <<>>
    ELSE IF Head(segs) \in drop THEN SelectSegs(Tail(segs), drop)
    ELSE <<Head(segs)>> \o SelectSegs(Tail(segs), drop)

(***************************************************************************)
(* pathlib (POSIX flavour)                                                 *)
(***************************************************************************)
DOT == <<".">>
DOTDOT == <<".", ".">>

\* Path(s): anchor flag and parts; empty and "." segments are dropped
PathParts(s) ==
    [abs   |-> StartsWith(s, <<"/">>),
     parts |-> SelectSegs(SplitSlash(s), {<<>>, DOT})]

\* Path(s).parts without the root
RelParts(s) == PathParts(s).parts

\* Path(s).parent.as_posix()
ParentPosix(s) ==
    LET pp == PathParts(s)
        par == IF pp.parts = <<>> THEN <<>>
               ELSE SubSeq(pp.parts, 1, Len(pp.parts) - 1)
    IN IF pp.abs THEN <<"/">> \o JoinSlash(par)
       ELSE IF par = <<>> THEN DOT
       ELSE JoinSlash(par)

\* Path.resolve() on a tree without symbolic links: ".." pops a segment
RECURSIVE Collapse(_, _)
Collapse(acc, segs) ==
    IF segs = <<>> THEN acc
    ELSE IF Head(segs) = DOTDOT
         THEN Collapse(IF acc = <<>> THEN <<>> ELSE SubSeq(acc, 1, Len(acc) - 1),
                       Tail(segs))
         ELSE Collapse(acc \o <<Head(segs)>>, Tail(segs))

\* str(p) of an absolute path
AbsStr(parts) == <<"/">> \o JoinSlash(parts)

IsPrefixSeq(a, b) == Len(a) <= Len(b) /\ SubSeq(b, 1, Len(a)) = a

\* Path.name, Path.suffix == ".py", Path.stem of a resolved path
PathName(p) == p[Len(p)]

SUF_PY == <<".", "p", "y">>

RECURSIVE LastDot(_)
LastDot(nm) ==
    IF nm = <<>> THEN 0
    ELSE IF nm[Len(nm)] = "." THEN Len(nm)
    ELSE LastDot(SubSeq(nm, 1, Len(nm) - 1))

\* Path.stem: the name without its last suffix (a leading dot is no suffix)
Stem(nm) ==
    LET i == LastDot(nm)
    IN IF i <= 1 \/ i = Len(nm) THEN nm ELSE SubSeq(nm, 1, i - 1)

\* fnmatch of a file name against "*.py"
MatchesStarPy(nm) == EndsWith(nm, SUF_PY)

(***************************************************************************)
(* Agent._norm_rel and Agent._relocate_into_dir                            *)
(***************************************************************************)
_norm_rel(rel_path) ==
    StripWs(ReplaceBackslash(LStripSet(rel_path, {"/"})))

_relocate_into_dir(rel_path, target_dir) ==
    LET rel == _norm_rel(rel_path)
        prefix == RStripSet(target_dir, {"/"}) \o <<"/">>
    IN IF target_dir \in {<<>>, DOT} THEN rel
       ELSE IF StartsWith(rel, prefix) THEN rel
       ELSE prefix \o rel

(***************************************************************************)
(* Text: file contents and drafts as sequences of lexical tokens           *)
(*   nl, sp            a newline, a blank                                  *)
(*   fence             a ``` marker                                        *)
(*   here              the words "Here is the code:"                       *)
(*   prose             words with no braces (neither JSON nor Python)      *)
(*   arr               a JSON value that is not an object, without braces  *)
(*   junk              brace-delimited text that is not JSON               *)
(*   obj               a JSON object literal, n its index in JsonObjects   *)
(*   stmt              a Python statement that imports nothing             *)
(*   import            "import v"            (v the dotted module name)    *)
(*   importas          "import v as w"                                     *)
(*   from              "from v import w"                                   *)
(*   req               one name of a requirements file (v = <<name>>)      *)
(***************************************************************************)
Tk(kind) == [k |-> kind, v |-> <<>>, w |-> <<>>, n |-> 0]

NL == Tk("nl")
SP == Tk("sp")
FENCE == Tk("fence")
HERE == Tk("here")
PROSE == Tk("prose")
ARR == Tk("arr")
JUNK == Tk("junk")
STMT == Tk("stmt")
Obj(i) == [k |-> "obj", v |-> <<>>, w |-> <<>>, n |-> i]
Imp(mod) == [k |-> "import", v |-> mod, w |-> <<>>, n |-> 0]
ImpAs(mod, alias) == [k |-> "importas", v |-> mod, w |-> alias, n |-> 0]
From(mod, name) == [k |-> "from", v |-> mod, w |-> name, n |-> 0]
Req(name) == [k |-> "req", v |-> <<name>>, w |-> <<>>, n |-> 0]

IsWsTok(t) == t.k \in {"nl", "sp"}

RECURSIVE LStripText(_)
LStripText(t) ==
    IF t # <<>> /\ IsWsTok(Head(t)) THEN LStripText(Tail(t)) ELSE t

\* str.rstrip()
RECURSIVE RStripText(_)
RStripText(t) ==
    IF t # <<>> /\ IsWsTok(t[Len(t)])
    THEN RStripText(SubSeq(t, 1, Len(t) - 1))
    ELSE t

\* str.strip()
StripText(t) == RStripText(LStripText(t))

FirstNl(t) == CHOOSE j \in 1..Len(t) :
                  t[j].k = "nl" /\ \A i \in 1..(j - 1) : t[i].k # "nl"

\* str.splitlines(): a final newline opens no further line
RECURSIVE SplitLines(_)
SplitLines(t) ==
    IF t = <<>> THEN <<>>
    ELSE IF \A i \in 1..Len(t) : t[i].k # "nl" THEN <<t>>
    ELSE <<SubSeq(t, 1, FirstNl(t) - 1)>>
             \o SplitLines(SubSeq(t, FirstNl(t) + 1, Len(t)))

\* "\n".join(lines)
RECURSIVE JoinLines(_)
JoinLines(lines) ==
    IF lines = <<>> THEN <<>>
    ELSE IF Len(lines) = 1 THEN lines[1]
    ELSE lines[1] \o <<NL>> \o JoinLines(Tail(lines))

\* line.lstrip().startswith("```")
StartsWithFence(line) ==
    LET l == LStripText(line) IN l # <<>> /\ l[1].k = "fence"

\* the first/last line is dropped when it starts with a fence marker
DropFenceLines(lines) ==
    LET l1 == IF lines # <<>> /\ StartsWithFence(lines[1])
              THEN Tail(lines) ELSE lines
    IN IF l1 # <<>> /\ StartsWithFence(l1[Len(l1)])
       THEN SubSeq(l1, 1, Len(l1) - 1) ELSE l1

(***************************************************************************)
(* The disk                                                                *)
(***************************************************************************)
\* Path(cfg.repo).resolve(): the repository root /w/r ; /w/r2 is a sibling
RepoParts == << <<"w">>, <<"r">> >>

IsFile(d, p) == p \in DOMAIN d

IsDir(d, p) ==
    \/ IsPrefixSeq(p, RepoParts)
    \/ \E f \in DOMAIN d : Len(p) < Len(f) /\ IsPrefixSeq(p, f)

Exists(d, p) == IsFile(d, p) \/ IsDir(d, p)

\* Truly inside the repository: the root itself or a descendant of it
InsideRepo(p) == IsPrefixSeq(RepoParts, p)

\* root.rglob("*.py")
RGlobPy(d, root) ==
    {f \in DOMAIN d : Len(root) < Len(f) /\ IsPrefixSeq(root, f)
                        /\ MatchesStarPy(PathName(f))}

\* the directories root.rglob("*.py") yields besides the files: the pattern
\* is matched against the name alone
RGlobPyDirs(d, root) ==
    {p \in UNION {{SubSeq(f, 1, k) : k \in 1..(Len(f) - 1)} : f \in DOMAIN d} :
        Len(root) < Len(p) /\ IsPrefixSeq(root, p) /\ MatchesStarPy(PathName(p))}

n_init == <<"_", "_", "i", "n", "i", "t", "_", "_">>
INIT_PY == n_init \o SUF_PY

\* root.rglob("__init__.py")
RGlobInit(d, root) ==
    {f \in DOMAIN d : Len(root) < Len(f) /\ IsPrefixSeq(root, f)
                        /\ PathName(f) = INIT_PY}

(***************************************************************************)
(* Tools                                                                   *)
(***************************************************************************)
max_chars == 20000

\* (self.repo_path / rel_path).resolve()
ResolveInRepo(rel_path) ==
    LET pp == PathParts(rel_path)
    IN Collapse(IF pp.abs THEN <<>> ELSE RepoParts, pp.parts)

\* Tools._safe: the resolved path, and whether the prefix test lets it pass
_safe(rel_path) ==
    LET p == ResolveInRepo(rel_path)
    IN [p |-> p, ok |-> StartsWith(AbsStr(p), AbsStr(RepoParts))]

\* Tools.write: _safe, mkdir(parents=True, exist_ok=True), write_text
Tools_write(d, rel_path, content) ==
    LET s == _safe(rel_path)
        p == s.p
    IN IF ~s.ok THEN [disk |-> d, err |-> "ValueError"]
       ELSE IF \E i \in 1..(Len(p) - 1) : IsFile(d, SubSeq(p, 1, i))
            THEN [disk |-> d, err |-> "OSError"]
       ELSE IF IsDir(d, p) THEN [disk |-> d, err |-> "OSError"]
       ELSE [disk |-> (p :> content) @@ d, err |-> "none"]

\* Tools.read
Tools_read(d, rel_path) ==
    LET s == _safe(rel_path)
    IN IF ~s.ok THEN [text |-> <<>>, err |-> "ValueError"]
       ELSE IF ~Exists(d, s.p) THEN [text |-> <<>>, err |-> "none"]
       ELSE IF IsDir(d, s.p) THEN [text |-> <<>>, err |-> "OSError"]
       ELSE [text |-> SubSeq(d[s.p], 1,
                             IF Len(d[s.p]) < max_chars THEN Len(d[s.p])
                             ELSE max_chars),
             err |-> "none"]

(***************************************************************************)
(* Names                                                                   *)
(***************************************************************************)
n_proj == <<"p", "r", "o", "j">>
n_sub == <<"s", "u", "b">>
n_app == <<"a", "p", "p">>
n_mod == <<"m", "o", "d">>
n_helper == <<"h", "e", "l", "p", "e", "r">>
n_x == <<"x">>
n_os == <<"o", "s">>
n_numpy == <<"n", "u", "m", "p", "y">>
n_typing == <<"t", "y", "p", "i", "n", "g">>
n_future == <<"_", "_", "f", "u", "t", "u", "r", "e", "_", "_">>
n_yaml == <<"y", "a", "m", "l">>
n_bs4 == <<"b", "s", "4">>
n_PIL == <<"P", "I", "L">>
n_cv2 == <<"c", "v", "2">>
n_PyYAML == <<"P", "y", "Y", "A", "M", "L">>
n_beautifulsoup4 ==
    <<"b", "e", "a", "u", "t", "i", "f", "u", "l", "s", "o", "u", "p", "4">>
n_Pillow == <<"P", "i", "l", "l", "o", "w">>
n_opencv_python ==
    <<"o", "p", "e", "n", "c", "v", "-", "p", "y", "t", "h", "o", "n">>
n_requirements_txt ==
    <<"r", "e", "q", "u", "i", "r", "e", "m", "e", "n", "t", "s", ".", "t", "x", "t">>

\* The characters of the names above in code-point order (str comparison)
AsciiOrder ==
    <<"-", ".", "2", "4", "A", "I", "L", "M", "P", "Y", "_",
      "a", "b", "c", "d", "e", "f", "g", "h", "i", "j", "k", "l", "m",
      "n", "o", "p", "q", "r", "s", "t", "u", "v", "w", "x", "y", "z">>

CodePoint(c) == CHOOSE i \in 1..Len(AsciiOrder) : AsciiOrder[i] = c

\* a <= b for str
RECURSIVE StrLeq(_, _)
StrLeq(a, b) ==
    IF a = <<>> THEN TRUE
    ELSE IF b = <<>> THEN FALSE
    ELSE IF Head(a) = Head(b) THEN StrLeq(Tail(a), Tail(b))
    ELSE CodePoint(Head(a)) < CodePoint(Head(b))

(***************************************************************************)
(* Tools.generate_requirements_txt_from_imports                            *)
(***************************************************************************)
PyKinds == {"nl", "sp", "stmt", "import", "importas", "from"}

\* ast.parse(text) succeeds: Python tokens only, one statement on a line,
\* and no indented first line of a statement at top level
ParsesAsPython(text) ==
    /\ \A i \in 1..Len(text) : text[i].k \in PyKinds
    /\ \A i \in 1..Len(text) :
           ~IsWsTok(text[i])
               => \A j \in (i + 1)..Len(text) :
                      (\A h \in (i + 1)..j : text[h].k # "nl") => IsWsTok(text[j])
    /\ \A i \in 1..Len(text) :
           (text[i].k = "sp" /\ (i = 1 \/ text[i - 1].k = "nl"))
               => \A j \in i..Len(text) :
                      (\A h \in i..j : text[h].k # "nl") => IsWsTok(text[j])

\* the first dotted segment of every Import / ImportFrom (level 0) node
ImportNames(text) ==
    {text[i].v[1] : i \in {j \in 1..Len(text) :
                              /\ text[j].k \in {"import", "importas", "from"}
                              /\ text[j].v # <<>>}}

HasPySuffix(nm) == EndsWith(nm, SUF_PY) /\ Len(nm) > Len(SUF_PY)

\* sys.stdlib_module_names (the members the model's sources can import)
StdlibNames == {n_os, n_typing, n_future}

\* _collect_local_modules without the stems of the files under a directory
_collect_local_modules_m(d, roots) ==
    LET live == {r \in roots : Exists(d, r)}
        single == {r \in live : IsFile(d, r) /\ HasPySuffix(PathName(r))}
        trees == live \ single
    IN {Stem(PathName(r)) : r \in single}
         \cup {PathName(SubSeq(f, 1, Len(f) - 1)) :
                   f \in UNION {RGlobInit(d, r) : r \in trees}}
         \cup {n_init}

\* Tools._collect_local_modules
_collect_local_modules(d, roots) ==
    LET live == {r \in roots : Exists(d, r)}
        single == {r \in live : IsFile(d, r) /\ HasPySuffix(PathName(r))}
        trees == live \ single
    IN {Stem(PathName(r)) : r \in single}
         \cup {Stem(PathName(f)) :
                   f \in UNION {RGlobPy(d, r) \cup RGlobPyDirs(d, r) : r \in trees}}
         \cup {PathName(SubSeq(f, 1, Len(f) - 1)) :
                   f \in UNION {RGlobInit(d, r) : r \in trees}}
         \cup {n_init}

\* mapping with no entry: every name stands for itself
mapping_m(m) == m

\* the rename table
mapping(m) ==
    IF m = n_yaml THEN n_PyYAML
    ELSE IF m = n_bs4 THEN n_beautifulsoup4
    ELSE IF m = n_PIL THEN n_Pillow
    ELSE IF m = n_cv2 THEN n_opencv_python
    ELSE m

\* sorted(mapping.get(m, m) for m in imports): one entry per import name
RECURSIVE SortedMapped(_)
SortedMapped(S) ==
    IF S = {} THEN <<>>
    ELSE LET m == CHOOSE x \in S : \A y \in S : StrLeq(mapping(x), mapping(y))
         IN <<mapping(m)>> \o SortedMapped(S \ {m})

\* "\n".join(reqs).strip() + ("\n" if reqs else "")
ManifestText(reqs) ==
    StripText(JoinLines([i \in 1..Len(reqs) |-> <<Req(reqs[i])>>]))
        \o (IF reqs # <<>> THEN <<NL>> ELSE <<>>)

ScannedFiles(d, p) ==
    IF ~Exists(d, p) THEN {}
    ELSE IF IsFile(d, p) /\ HasPySuffix(PathName(p)) THEN {p}
    ELSE RGlobPy(d, p)

\* read_text raises for the files of noread (and for a directory that
\* rglob yields, which ScannedFiles leaves out); the file is skipped then,
\* as it is when ast.parse raises
RequirementsContentIO(d, roots, noread) ==
    LET files == UNION {ScannedFiles(d, r) : r \in roots}
        imports == UNION {ImportNames(d[f]) :
                              f \in {g \in files : /\ g \notin noread
                                                  /\ ParsesAsPython(d[g])}}
        local_modules == _collect_local_modules(d, roots)
        kept == {m \in imports : /\ m # <<>>
                                 /\ m \notin StdlibNames
                                 /\ m \notin local_modules
                                 /\ m \notin {n_future, n_typing}}
    IN ManifestText(SortedMapped(kept))

\* every file can be read
RequirementsContent(d, roots) == RequirementsContentIO(d, roots, {})

\* scan_rel_paths is a sequence of relative paths
generate_requirements_io(d, out_rel_path, scan_rel_paths, noread) ==
    IF \E i \in 1..Len(scan_rel_paths) : ~_safe(scan_rel_paths[i]).ok
    THEN [disk |-> d, err |-> "ValueError", content |-> <<>>]
    ELSE LET roots == {_safe(scan_rel_paths[i]).p : i \in 1..Len(scan_rel_paths)}
             content == RequirementsContentIO(d, roots, noread)
             w == Tools_write(d, out_rel_path, content)
         IN [disk |-> w.disk, err |-> w.err, content |-> content]

generate_requirements_txt_from_imports(d, out_rel_path, scan_rel_paths) ==
    generate_requirements_io(d, out_rel_path, scan_rel_paths, {})

(***************************************************************************)
(* Paths and JSON objects a model response may hold                        *)
(***************************************************************************)
SL == <<"/">>
SUF_MD == <<".", "m", "d">>
SUF_TXT == <<".", "t", "x", "t">>
SUF_YAML == <<".", "y", "a", "m", "l">>
SUF_YML == <<".", "y", "m", "l">>
SUF_JSON == <<".", "j", "s", "o", "n">>

p_app_py == n_app \o SUF_PY
p_helper_py == n_helper \o SUF_PY
p_x_py == n_x \o SUF_PY
p_proj_app_py == n_proj \o SL \o p_app_py
p_proj_helper_py == n_proj \o SL \o p_helper_py
p_dot_proj_app_py == DOT \o SL \o p_proj_app_py
p_proj_sub_mod_py == n_proj \o SL \o n_sub \o SL \o n_mod \o SUF_PY
p_proj_sub_helper_py == n_proj \o SL \o n_sub \o SL \o p_helper_py
p_up_x_py == DOTDOT \o SL \o p_x_py
p_sibling_x_py == DOTDOT \o SL \o <<"r", "2">> \o SL \o p_x_py
p_readme_md == <<"R", "E", "A", "D", "M", "E">> \o SUF_MD
p_notes_txt == <<"n", "o", "t", "e", "s">> \o SUF_TXT
p_answer == <<"a", "n", "s", "w", "e", "r">>
p_proj_requirements_txt == n_proj \o SL \o n_requirements_txt
p_proj_proj_py == n_proj \o SL \o n_proj \o SUF_PY

\* One entry of a decoded JSON object: the key, whether the value is a
\* string, and the string's text
Entry(key, isstr, val) == [key |-> key, isstr |-> isstr, val |-> val]

JsonObjects ==
    << \* 1: keys relative to the project directory
       << Entry(p_app_py, TRUE, <<Imp(<<n_helper>>), NL>>),
          Entry(p_helper_py, TRUE, <<STMT, NL>>) >>,
       \* 2: keys relative to the repository, one value with no final newline
       << Entry(p_proj_app_py, TRUE, <<Imp(<<n_helper>>), NL>>),
          Entry(p_proj_helper_py, TRUE, <<STMT>>) >>,
       \* 3: a key with a ".." segment
       << Entry(p_proj_app_py, TRUE, <<Imp(<<n_yaml>>), NL>>),
          Entry(p_up_x_py, TRUE, <<STMT, NL>>) >>,
       \* 4: keys written the way a "./" entry path is written
       << Entry(p_dot_proj_app_py, TRUE, <<Imp(<<n_helper>>), NL>>),
          Entry(p_helper_py, TRUE, <<STMT, NL>>) >>,
       \* 5: a plain answer, no path-like key
       << Entry(p_answer, TRUE, <<PROSE>>) >>,
       \* 6: a value that is not a string
       << Entry(p_proj_app_py, TRUE, <<STMT, NL>>),
          Entry(p_proj_helper_py, FALSE, <<>>) >>,
       \* 7: two path-like keys, one Python file
       << Entry(p_readme_md, TRUE, <<PROSE, NL>>),
          Entry(p_proj_app_py, TRUE, <<STMT, NL>>) >>,
       \* 8: the empty object
       << >>,
       \* 9: a manifest supplied by the model, an empty file, padded values
       << Entry(p_proj_app_py, TRUE,
                <<Imp(<<n_proj, n_helper>>), NL, Imp(<<n_numpy>>), NL>>),
          Entry(p_proj_helper_py, TRUE, <<>>),
          Entry(p_proj_requirements_txt, TRUE,
                <<Req(n_numpy), SP, SP, NL, NL>>) >>,
       \* 10: a key that leads into the sibling directory /w/r2
       << Entry(p_app_py, TRUE, <<STMT, NL>>),
          Entry(p_sibling_x_py, TRUE, <<STMT, NL>>) >>,
       \* 11: keys that start with "/"
       << Entry(SL \o p_proj_app_py, TRUE, <<STMT>>),
          Entry(SL \o p_proj_helper_py, TRUE, <<STMT, SP, NL>>) >>,
       \* 12: no path-like key and a value that is not a string
       << Entry(p_answer, FALSE, <<>>) >>,
       \* 13: a nested project directory
       << Entry(p_proj_sub_mod_py, TRUE, <<Imp(<<n_PIL>>), NL, Imp(<<n_os>>)>>),
          Entry(p_proj_sub_helper_py, TRUE, <<STMT, NL>>) >>,
       \* 14: two path-like keys, no Python file
       << Entry(p_readme_md, TRUE, <<PROSE, NL>>),
          Entry(p_notes_txt, TRUE, <<PROSE>>) >>,
       \* 15: imports two levels below the project directory, and of a module
       \* named like the project directory
       << Entry(p_proj_app_py, TRUE,
                <<From(<<n_proj, n_sub, n_mod>>, n_x), NL,
                  From(<<n_proj, n_proj>>, n_x), NL>>),
          Entry(p_proj_proj_py, TRUE, <<STMT, NL>>) >>,
       \* 16: a manifest supplied under a key written with "./"
       << Entry(p_proj_app_py, TRUE, <<Imp(<<n_yaml>>), NL>>),
          Entry(p_proj_helper_py, TRUE, <<STMT, NL>>),
          Entry(DOT \o SL \o n_requirements_txt, TRUE, <<Req(n_numpy), NL>>) >>,
       \* 17: a marker file supplied by the model, and two keys for one file
       << Entry(p_proj_app_py, TRUE, <<Imp(<<n_proj, n_helper>>), NL>>),
          Entry(p_app_py, TRUE, <<STMT, NL>>),
          Entry(n_proj \o SL \o INIT_PY, TRUE, <<Imp(<<n_numpy>>), NL>>) >> >>

(***************************************************************************)
(* utils.strip_code_fences and utils.parse_files_json                      *)
(***************************************************************************)
RECURSIVE NonWs(_)
NonWs(t) ==
    IF t = <<>> THEN <<>>
    ELSE IF IsWsTok(Head(t)) THEN NonWs(Tail(t))
    ELSE <<Head(t)>> \o NonWs(Tail(t))

\* json.loads: one JSON value, white space around it allowed
json_loads(t) ==
    LET body == NonWs(t)
    IN IF Len(body) = 1 /\ body[1].k \in {"obj", "arr"}
       THEN [ok |-> TRUE, isdict |-> body[1].k = "obj",
             data |-> IF body[1].k = "obj" THEN JsonObjects[body[1].n] ELSE <<>>]
       ELSE [ok |-> FALSE, isdict |-> FALSE, data |-> <<>>]

\* re.search(r"(?s)\{.*\}", s): from the first "{" to the last "}"
HasBraces(t) == \E i \in 1..Len(t) : t[i].k \in {"obj", "junk"}

BraceSpan(t) ==
    LET I == {i \in 1..Len(t) : t[i].k \in {"obj", "junk"}}
        lo == CHOOSE i \in I : \A j \in I : i <= j
        hi == CHOOSE i \in I : \A j \in I : j <= i
    IN SubSeq(t, lo, hi)

PathExts == {SUF_PY, SUF_MD, SUF_TXT, SUF_YAML, SUF_YML, SUF_JSON}

PathLike(key) == Contains(key, "/") \/ \E e \in PathExts : EndsWith(key, e)

R_NOT_JSON == "Model did not return valid JSON object for files."
R_NO_PATHS == "JSON did not look like a files map (no path-like keys)."
R_NOT_DICT == "Files JSON must be an object/dict."
R_NOT_STR == "Files JSON keys and values must be strings."
R_DECODE == "json.JSONDecodeError"

ParseFail(reason, via) ==
    [ok |-> FALSE, reason |-> reason, via |-> via, files |-> <<>>]

\* the checks after the try block: the value is a dict of str -> str
FilesOf(dec, via) ==
    IF ~dec.isdict THEN ParseFail(R_NOT_DICT, via)
    ELSE IF \E i \in 1..Len(dec.data) : ~dec.data[i].isstr
         THEN ParseFail(R_NOT_STR, via)
    ELSE [ok |-> TRUE, reason |-> "", via |-> via,
          files |-> [i \in 1..Len(dec.data) |->
                        [key |-> dec.data[i].key, val |-> dec.data[i].val]]]

\* the fence-stripped text both functions work on
Unfenced(s) == StripText(JoinLines(DropFenceLines(SplitLines(s))))

\* ExtractAndDecode with the reason of the path-like check given to text that
\* holds no {...} block
ExtractAndDecode_m(s) ==
    IF ~HasBraces(s) THEN ParseFail(R_NO_PATHS, "extract")
    ELSE LET dec == json_loads(BraceSpan(s))
         IN IF ~dec.ok THEN ParseFail(R_DECODE, "extract")
            ELSE FilesOf(dec, "extract")

\* the except branch: decode the first {...} block, with no path-like check
ExtractAndDecode(s) ==
    IF ~HasBraces(s) THEN ParseFail(R_NOT_JSON, "extract")
    ELSE LET dec == json_loads(BraceSpan(s))
         IN IF ~dec.ok THEN ParseFail(R_DECODE, "extract")
            ELSE FilesOf(dec, "extract")

parse_files_json(text) ==
    LET s == Unfenced(StripText(text))
        direct == json_loads(s)
    IN IF direct.ok
       THEN IF direct.isdict
                 /\ ~\E i \in 1..Len(direct.data) : PathLike(direct.data[i].key)
            THEN ParseFail(R_NO_PATHS, "direct")
            ELSE FilesOf(direct, "direct")
       ELSE ExtractAndDecode(s)

\* re.sub(r"^\s*Here is the code:\s*", "", s)
DropHereIsTheCode(s) ==
    IF s # <<>> /\ s[1].k = "here" THEN LStripText(Tail(s)) ELSE s

strip_code_fences(text) ==
    IF text = <<>> THEN <<>>
    ELSE Unfenced(DropHereIsTheCode(StripText(text)))

(***************************************************************************)
(* Agent._ensure_init_chain_for_path                                       *)
(***************************************************************************)
\* One call of tools.write, as recorded in the run's log
WriteRec(kind, rel_path, content, err) ==
    [kind |-> kind, path |-> rel_path, content |-> content, err |-> err]

\* InitChainFrom without the test that the marker exists
RECURSIVE InitChainFrom_m(_, _, _, _, _)
InitChainFrom_m(d, log, parts, k, last) ==
    IF k > last THEN [disk |-> d, err |-> "none", log |-> log]
    ELSE LET init_rel == JoinSlash(SubSeq(parts, 1, k) \o <<INIT_PY>>)
             w == Tools_write(d, init_rel, <<>>)
             log2 == Append(log, WriteRec("marker", init_rel, <<>>, w.err))
         IN IF w.err # "none"
            THEN [disk |-> w.disk, err |-> w.err, log |-> log2]
            ELSE InitChainFrom_m(w.disk, log2, parts, k + 1, last)

\* The marker of the directory made of the first k parts, then the deeper ones
RECURSIVE InitChainFrom(_, _, _, _, _)
InitChainFrom(d, log, parts, k, last) ==
    IF k > last THEN [disk |-> d, err |-> "none", log |-> log]
    ELSE LET init_rel == JoinSlash(SubSeq(parts, 1, k) \o <<INIT_PY>>)
             init_abs == ResolveInRepo(init_rel)
         IN IF Exists(d, init_abs)
            THEN InitChainFrom(d, log, parts, k + 1, last)
            ELSE LET w == Tools_write(d, init_rel, <<>>)
                     log2 == Append(log, WriteRec("marker", init_rel, <<>>, w.err))
                 IN IF w.err # "none"
                    THEN [disk |-> w.disk, err |-> w.err, log |-> log2]
                    ELSE InitChainFrom(w.disk, log2, parts, k + 1, last)

\* package_root is <<>> for None
_ensure_init_chain_for_path(d, log, rel_py_path, package_root) ==
    LET rel == _norm_rel(rel_py_path)
        parts == RelParts(rel)
    IN IF ~EndsWith(rel, SUF_PY) THEN [disk |-> d, err |-> "none", log |-> log]
       ELSE IF package_root \in {<<>>, DOT}
            THEN [disk |-> d, err |-> "none", log |-> log]
       ELSE IF PathParts(rel).abs \/ parts = <<>> \/ parts[1] # package_root
            THEN [disk |-> d, err |-> "none", log |-> log]
       ELSE \* markers for accum = parts[0], parts[0]/parts[1], ... ; the loop
            \* over parts[1:-1] is empty for a one-part path and the last
            \* write then uses accum = parts[0]
            InitChainFrom(d, log, parts, 1,
                          IF Len(parts) = 1 THEN 1 ELSE Len(parts) - 1)

(***************************************************************************)
(* Agent._enforce_same_folder_imports                                      *)
(***************************************************************************)
\* "^": the token starts a line
AtLineStart(t, i) == i = 1 \/ t[i - 1].k = "nl"

\* the last index of the white space that follows token i
RECURSIVE WsRunEnd(_, _)
WsRunEnd(t, i) ==
    IF i < Len(t) /\ IsWsTok(t[i + 1]) THEN WsRunEnd(t, i + 1) ELSE i

\* "\s*$" after token i (re.MULTILINE): -1 when it cannot match, else the
\* number of white-space tokens the greedy match takes.  "$" holds at the
\* end of the text and before a newline.
EatToLineEnd(t, i) ==
    LET j == WsRunEnd(t, i)
        nls == {h \in (i + 1)..j : t[h].k = "nl"}
    IN IF j = Len(t) THEN j - i
       ELSE IF nls = {} THEN -1
       ELSE (CHOOSE h \in nls : \A g \in nls : g <= h) - 1 - i

\* v is the dotted prefix followed by exactly one identifier
OneBelow(v, prefix) ==
    Len(v) = Len(prefix) + 1 /\ SubSeq(v, 1, Len(prefix)) = prefix

\* from P.m import X  ->  from m import X
Sub1(t, prefix) ==
    [i \in 1..Len(t) |->
        IF t[i].k = "from" /\ AtLineStart(t, i) /\ OneBelow(t[i].v, prefix)
        THEN From(<<t[i].v[Len(t[i].v)]>>, t[i].w)
        ELSE t[i]]

\* import P.m as s  ->  import m as s
Sub2(t, prefix) ==
    [i \in 1..Len(t) |->
        IF t[i].k = "importas" /\ AtLineStart(t, i) /\ OneBelow(t[i].v, prefix)
        THEN ImpAs(<<t[i].v[Len(t[i].v)]>>, t[i].w)
        ELSE t[i]]

\* import P.m  ->  import m     (the match takes "\s*$" with it)
RECURSIVE Sub3(_, _, _)
Sub3(t, i, prefix) ==
    IF i > Len(t) THEN <<>>
    ELSE IF /\ t[i].k = "import" /\ AtLineStart(t, i)
            /\ OneBelow(t[i].v, prefix) /\ EatToLineEnd(t, i) >= 0
         THEN <<Imp(<<t[i].v[Len(t[i].v)]>>)>>
                  \o Sub3(t, i + 1 + EatToLineEnd(t, i), prefix)
         ELSE <<t[i]>> \o Sub3(t, i + 1, prefix)

\* from P import m  ->  import m     (the match takes "\s*$" with it)
RECURSIVE Sub4(_, _, _)
Sub4(t, i, prefix) ==
    IF i > Len(t) THEN <<>>
    ELSE IF /\ t[i].k = "from" /\ AtLineStart(t, i)
            /\ t[i].v = prefix /\ EatToLineEnd(t, i) >= 0
         THEN <<Imp(<<t[i].w>>)>>
                  \o Sub4(t, i + 1 + EatToLineEnd(t, i), prefix)
         ELSE <<t[i]>> \o Sub4(t, i + 1, prefix)

\* the four substitutions in the opposite order
RewriteImports_m(text, prefix) ==
    Sub1(Sub2(Sub3(Sub4(text, 1, prefix), 1, prefix), prefix), prefix)

\* the four substitutions, in the order of the source
RewriteImports(text, prefix) ==
    Sub4(Sub3(Sub2(Sub1(text, prefix), prefix), 1, prefix), 1, prefix)

\* the loop that gives up at the first file it cannot read or write
enforce_imports_io_m(d, module_dir, noread, nowrite) ==
    LET md == RStripSet(LStripSet(_norm_rel(module_dir), {"/"}), {"/"})
        pkg_prefix == SplitSlash(md)
        root == ResolveInRepo(md)
    IN IF md = <<>> \/ md = DOT THEN d
       ELSE IF ~Exists(d, root) THEN d
       ELSE IF (noread \cup nowrite) \cap RGlobPy(d, root) # {} THEN d
       ELSE [f \in DOMAIN d |->
                IF f \in RGlobPy(d, root) THEN RewriteImports(d[f], pkg_prefix)
                ELSE d[f]]

\* _enforce_same_folder_imports where read_text raises for the files of
\* noread and write_text for those of nowrite: "except: continue" and
\* "except: pass" leave such a file as it is and go on with the next one.
\* A directory that rglob("*.py") yields cannot be read and holds no text.
enforce_imports_io(d, module_dir, noread, nowrite) ==
    LET md == RStripSet(LStripSet(_norm_rel(module_dir), {"/"}), {"/"})
        pkg_prefix == SplitSlash(md)
        root == ResolveInRepo(md)
    IN IF md = <<>> \/ md = DOT THEN d
       ELSE IF ~Exists(d, root) THEN d
       ELSE [f \in DOMAIN d |->
                IF /\ f \in RGlobPy(d, root)
                   /\ f \notin noread
                   /\ RewriteImports(d[f], pkg_prefix) # d[f]
                   /\ f \notin nowrite
                THEN RewriteImports(d[f], pkg_prefix)
                ELSE d[f]]

\* every file can be read and written
_enforce_same_folder_imports(d, module_dir) ==
    enforce_imports_io(d, module_dir, {}, {})

(***************************************************************************)
(* Inputs of a run                                                         *)
(***************************************************************************)
\* the caller's entry module path
ModulePaths == {p_proj_app_py, p_app_py, p_dot_proj_app_py, p_proj_sub_mod_py}

\* what the model returns for the planning prompt
Plans == {<<>>, <<SP>>, <<PROSE>>}

\* what the model returns for the code-generation prompt
Bodies ==
    {<<>>, <<PROSE>>, <<STMT>>, <<Imp(<<n_yaml>>), NL, STMT>>, <<ARR>>, <<JUNK>>,
     <<Obj(5), SP, Obj(2)>>}
      \cup {<<Obj(i)>> : i \in 1..Len(JsonObjects)}

Wrap(w, body) ==
    CASE w = 1 -> body
      [] w = 2 -> <<FENCE, NL>> \o body \o <<NL, FENCE>>
      [] w = 3 -> <<PROSE, SP>> \o body
      [] w = 4 -> <<HERE, NL>> \o body
      [] w = 5 -> <<NL>> \o body \o <<SP, NL>>

Drafts == {Wrap(w, b) : w \in 1..5, b \in Bodies}

\* the tree before the run: empty, or holding an earlier project
Resolved(rel) == ResolveInRepo(rel)

p_proj_old_py == n_proj \o SL \o <<"o", "l", "d">> \o SUF_PY

n_oldpkg == <<"o", "l", "d", "p", "k", "g">>

OldDisk ==
    (Resolved(n_proj \o SL \o INIT_PY) :> <<STMT, NL>>)
      @@ (Resolved(p_proj_old_py)
            :> <<From(<<n_proj, n_helper>>, n_x), NL, Imp(<<n_bs4>>), NL>>)
      @@ (Resolved(p_proj_requirements_txt) :> <<Req(n_oldpkg), NL>>)

EmptyDisk == [f \in {} |-> <<>>]

InitialDisks == {EmptyDisk, OldDisk}

(***************************************************************************)
(* Agent.create_program                                                    *)
(***************************************************************************)
NoParse == [ok |-> FALSE, reason |-> "", via |-> "", files |-> <<>>]

NoResult ==
    [status |-> "none", kind |-> "", count |-> 0, files |-> <<>>, req |-> <<>>]

RunResult(ok, kind, count, files, req) ==
    [status |-> IF ok THEN "ok" ELSE "fail", kind |-> kind, count |-> count,
     files |-> files, req |-> req]

\* an exception that leaves create_program
Raised(err) ==
    [status |-> "raised", kind |-> err, count |-> 0, files |-> <<>>, req |-> <<>>]

\* The message of a RunResult: the literal text of the source and the values
\* formatted into it, in order
MsgEmptyPlan == <<"Model returned empty plan.">>

\* MsgEmptyDraft with the text of the empty-plan failure
MsgEmptyDraft_m == <<"Model returned empty plan.">>

MsgEmptyDraft == <<"Model returned empty module draft.">>

MsgTooFew(n, py_files) ==
    <<"Expected a multi-file project with >=2 Python files. Got ", n, ": ",
      py_files>>

MsgMissingEntry(mp) == <<"Model did not include entrypoint file: ", mp>>

MsgWroteModule(mp, req_note) == <<"Wrote module: ", mp, " (and ", req_note, ")">>

MsgWroteFiles(n, mp, req_note) ==
    <<"Wrote ", n, " files (entrypoint: ", mp, ") and ", req_note>>

Message(r) ==
    CASE r.kind = "empty_plan" -> MsgEmptyPlan
      [] r.kind = "empty_draft" -> MsgEmptyDraft
      [] r.kind = "too_few_py" -> MsgTooFew(r.count, r.files)
      [] r.kind = "missing_entry" -> MsgMissingEntry(r.files[1])
      [] r.kind = "wrote_module" -> MsgWroteModule(r.files[1], r.req)
      [] r.kind = "wrote_files" -> MsgWroteFiles(r.count, r.files[1], r.req)
      [] OTHER -> <<>>

module_dir == ParentPosix(module_path)

auto_req_path ==
    IF module_dir \notin {DOT, <<>>}
    THEN module_dir \o SL \o n_requirements_txt
    ELSE n_requirements_txt

\* the first part of the entry path; <<>> stands for None
package_root ==
    LET module_parts == RelParts(_norm_rel(module_path))
    IN IF module_parts # <<>> /\ module_parts[1] \notin {<<>>, DOT}
       THEN module_parts[1] ELSE <<>>

RECURSIVE SelectPy(_)
SelectPy(paths) ==
    IF paths = <<>> THEN <<>>
    ELSE IF EndsWith(Head(paths), SUF_PY)
         THEN <<Head(paths)>> \o SelectPy(Tail(paths))
         ELSE SelectPy(Tail(paths))

Keys(files) == [i \in 1..Len(files) |-> files[i].key]

\* the least number of Python files of a multi-file answer
MinPyFiles == 2

\* TooFew with the threshold off by one
TooFew_m(py_files) == Len(py_files) < MinPyFiles - 1

TooFew(py_files) == Len(py_files) < MinPyFiles

\* bool(files_map)
Truthy(fm) == fm.ok /\ fm.files # <<>>

\* Normalized without the rstrip()
Normalized_m(content) == content \o <<NL>>

\* (content or "").rstrip() + "\n"
Normalized(content) == RStripText(content) \o <<NL>>

Init ==
    /\ pc = "plan"
    /\ module_path \in ModulePaths
    /\ disk \in InitialDisks
    /\ plan = <<>>
    /\ draft_raw = <<>>
    /\ files_map = NoParse
    /\ idx = 0
    /\ written_paths = <<>>
    /\ model_req = FALSE
    /\ result = NoResult
    /\ writes = <<>>
    /\ reloc = [p |-> <<>>, d |-> <<>>, out |-> <<>>]
    /\ tool = [disk |-> EmptyDisk, op |-> "none", rels |-> <<>>, err |-> "none",
               n |-> 0]

\* plan = run(p1).strip(); an empty plan ends the run
Plan ==
    /\ pc = "plan"
    /\ \E text \in Plans :
          /\ plan' = StripText(text)
          /\ IF StripText(text) = <<>>
             THEN /\ result' = RunResult(FALSE, "empty_plan", 0, <<>>, <<>>)
                  /\ pc' = "done"
             ELSE /\ result' = result
                  /\ pc' = "draft"
    /\ UNCHANGED <<module_path, draft_raw, files_map, idx, written_paths,
                   model_req, disk, writes, reloc, tool>>

\* draft_raw = run(p2)
Draft ==
    /\ pc = "draft"
    /\ draft_raw' \in Drafts
    /\ pc' = "parse"
    /\ UNCHANGED <<module_path, plan, files_map, idx, written_paths, model_req,
                   result, disk, writes, reloc, tool>>

\* the try block: parse_files_json and the >= 2 Python files rule; a parse
\* failure is caught and leaves files_map None
Parse ==
    /\ pc = "parse"
    /\ LET fm == parse_files_json(draft_raw)
           py_files == SelectPy(Keys(fm.files))
       IN /\ files_map' = fm
          /\ IF fm.ok /\ TooFew(py_files)
             THEN /\ result' = RunResult(FALSE, "too_few_py", Len(py_files),
                                         py_files, <<>>)
                  /\ pc' = "done"
                  /\ idx' = idx
             ELSE /\ result' = result
                  /\ pc' = "write"
                  /\ idx' = 1
    /\ UNCHANGED <<module_path, plan, draft_raw, written_paths, model_req,
                   disk, writes, reloc, tool>>

\* a turn of the loop that also creates the markers of the file it wrote
WriteFile_m ==
    /\ pc = "write"
    /\ Truthy(files_map)
    /\ idx <= Len(files_map.files)
    /\ LET rel_path == files_map.files[idx].key
           content == files_map.files[idx].val
           target_rel_path == _relocate_into_dir(rel_path, module_dir)
           normalized == Normalized(content)
           w == Tools_write(disk, target_rel_path, normalized)
           log == Append(writes,
                         WriteRec("file", target_rel_path, normalized, w.err))
           c == _ensure_init_chain_for_path(w.disk, log, target_rel_path,
                                            package_root)
       IN /\ model_req' = (model_req \/ target_rel_path = auto_req_path)
          /\ IF w.err # "none"
             THEN /\ disk' = w.disk
                  /\ writes' = log
                  /\ result' = Raised(w.err)
                  /\ pc' = "done"
                  /\ UNCHANGED <<written_paths, idx>>
             ELSE /\ disk' = c.disk
                  /\ writes' = c.log
                  /\ written_paths' = Append(written_paths, target_rel_path)
                  /\ idx' = idx + 1
                  /\ UNCHANGED <<result, pc>>
    /\ UNCHANGED <<module_path, plan, draft_raw, files_map, reloc, tool>>

\* one turn of the loop over files_map.items()
WriteFile ==
    /\ pc = "write"
    /\ Truthy(files_map)
    /\ idx <= Len(files_map.files)
    /\ LET rel_path == files_map.files[idx].key
           content == files_map.files[idx].val
           target_rel_path == _relocate_into_dir(rel_path, module_dir)
           normalized == Normalized(content)
           w == Tools_write(disk, target_rel_path, normalized)
       IN /\ model_req' = (model_req \/ target_rel_path = auto_req_path)
          /\ disk' = w.disk
          /\ writes' = Append(writes,
                              WriteRec("file", target_rel_path, normalized, w.err))
          /\ IF w.err # "none"
             THEN /\ result' = Raised(w.err)
                  /\ pc' = "done"
                  /\ UNCHANGED <<written_paths, idx>>
             ELSE /\ written_paths' = Append(written_paths, target_rel_path)
                  /\ idx' = idx + 1
                  /\ UNCHANGED <<result, pc>>
    /\ UNCHANGED <<module_path, plan, draft_raw, files_map, reloc, tool>>

\* after the loop: the entry module must be a key of files_map
EntryCheck ==
    /\ pc = "write"
    /\ Truthy(files_map)
    /\ idx > Len(files_map.files)
    /\ IF ~\E i \in 1..Len(files_map.files) : files_map.files[i].key = module_path
       THEN /\ result' = RunResult(FALSE, "missing_entry", 0, <<module_path>>, <<>>)
            /\ pc' = "done"
            /\ idx' = idx
       ELSE /\ result' = result
            /\ pc' = "init"
            /\ idx' = 1
    /\ UNCHANGED <<module_path, plan, draft_raw, files_map, written_paths,
                   model_req, disk, writes, reloc, tool>>

\* final_code without the rstrip() and the newline
FinalCode_m(draft) == draft

\* final_code = draft.rstrip() + "\n"
FinalCode(draft) == RStripText(draft) \o <<NL>>

\* the single-file fallback
Fallback ==
    /\ pc = "write"
    /\ ~Truthy(files_map)
    /\ LET draft == strip_code_fences(draft_raw)
           final_code == FinalCode(draft)
           w == Tools_write(disk, module_path, final_code)
       IN IF StripText(draft) = <<>>
          THEN /\ result' = RunResult(FALSE, "empty_draft", 0, <<>>, <<>>)
               /\ pc' = "done"
               /\ UNCHANGED <<disk, writes, written_paths, idx>>
          ELSE /\ disk' = w.disk
               /\ writes' = Append(writes,
                                   WriteRec("file", module_path, final_code, w.err))
               /\ IF w.err # "none"
                  THEN /\ result' = Raised(w.err)
                       /\ pc' = "done"
                       /\ UNCHANGED <<written_paths, idx>>
                  ELSE /\ written_paths' = Append(written_paths, module_path)
                       /\ idx' = 1
                       /\ pc' = "init"
                       /\ result' = result
    /\ UNCHANGED <<module_path, plan, draft_raw, files_map, model_req, reloc, tool>>

\* one turn of the loop over written_py_files
InitChain ==
    /\ pc = "init"
    /\ idx <= Len(SelectPy(written_paths))
    /\ LET r == _ensure_init_chain_for_path(disk, writes,
                    SelectPy(written_paths)[idx], package_root)
       IN /\ disk' = r.disk
          /\ writes' = r.log
          /\ IF r.err # "none"
             THEN /\ result' = Raised(r.err)
                  /\ pc' = "done"
                  /\ idx' = idx
             ELSE /\ result' = result
                  /\ pc' = pc
                  /\ idx' = idx + 1
    /\ UNCHANGED <<module_path, plan, draft_raw, files_map, written_paths,
                   model_req, reloc, tool>>

\* self._enforce_same_folder_imports(module_dir)
Rewrite ==
    /\ pc = "init"
    /\ idx > Len(SelectPy(written_paths))
    /\ disk' = _enforce_same_folder_imports(disk, module_dir)
    /\ pc' = "reqs"
    /\ UNCHANGED <<module_path, plan, draft_raw, files_map, idx, written_paths,
                   model_req, result, writes, reloc, tool>>

\* the requirements step and the result
Requirements ==
    /\ pc = "reqs"
    /\ LET scan_targets == IF module_dir \notin {DOT, <<>>}
                           THEN <<module_dir>> ELSE <<DOT>>
           g == generate_requirements_txt_from_imports(disk, auto_req_path,
                                                       scan_targets)
           done == IF Len(written_paths) = 1
                   THEN RunResult(TRUE, "wrote_module", 1, <<module_path>>,
                                  auto_req_path)
                   ELSE RunResult(TRUE, "wrote_files", Len(written_paths),
                                  <<module_path>>, auto_req_path)
       IN IF model_req
          THEN /\ result' = done
               /\ UNCHANGED <<disk, writes>>
          ELSE /\ disk' = g.disk
               /\ writes' = Append(writes,
                                   WriteRec("manifest", auto_req_path, g.content,
                                            g.err))
               /\ result' = IF g.err # "none" THEN Raised(g.err) ELSE done
    /\ pc' = "done"
    /\ UNCHANGED <<module_path, plan, draft_raw, files_map, idx, written_paths,
                   model_req, reloc, tool>>

Next ==
    \/ Plan
    \/ Draft
    \/ Parse
    \/ WriteFile
    \/ EntryCheck
    \/ Fallback
    \/ InitChain
    \/ Rewrite
    \/ Requirements

Spec == Init /\ [][Next]_vars

(***************************************************************************)
(* _relocate_into_dir applied repeatedly to its own result                 *)
(***************************************************************************)
MaxRelocations == 2

n_a_py == <<"a">> \o SUF_PY

RelocPaths ==
    {n_a_py, SL \o n_a_py, <<" ">> \o SL \o n_a_py, <<"\\">> \o n_a_py,
     n_x \o SL \o n_a_py, <<" ">> \o n_a_py, n_x \o <<"\\">> \o n_a_py,
     DOTDOT \o SL \o n_a_py, n_a_py \o <<" ">>, <<>>}

RelocDirs ==
    {<<>>, DOT, n_x, n_x \o SL, SL \o n_x, n_x \o <<"\\">> \o <<"y">>,
     <<" ">> \o n_x, SL, n_x \o SL \o <<"y">>}

IdleRun ==
    /\ pc = "idle"
    /\ module_path = <<>>
    /\ disk = EmptyDisk
    /\ plan = <<>>
    /\ draft_raw = <<>>
    /\ files_map = NoParse
    /\ idx = 0
    /\ written_paths = <<>>
    /\ model_req = FALSE
    /\ result = NoResult
    /\ writes = <<>>

IdleTool ==
    [disk |-> EmptyDisk, op |-> "none", rels |-> <<>>, err |-> "none", n |-> 0]

InitRelocate ==
    /\ IdleRun
    /\ tool = IdleTool
    /\ \E p \in RelocPaths, d \in RelocDirs : reloc = [p |-> p, d |-> d, out |-> <<>>]

\* out[1] = relocate(p, d), out[k+1] = relocate(out[k], d)
Relocate ==
    /\ Len(reloc.out) < MaxRelocations
    /\ reloc' = [reloc EXCEPT !.out =
                    Append(@, _relocate_into_dir(
                                  IF @ = <<>> THEN reloc.p ELSE @[Len(@)],
                                  reloc.d))]
    /\ UNCHANGED <<runVars, tool>>

NextRelocate == Relocate

SpecRelocate == InitRelocate /\ [][NextRelocate]_vars

(***************************************************************************)
(* Tools called directly with relative paths                               *)
(***************************************************************************)
MaxToolOps == 2

ToolPaths ==
    {n_a_py, n_proj \o SL \o n_a_py, p_up_x_py, p_sibling_x_py,
     n_proj \o SL \o DOTDOT \o SL \o p_sibling_x_py,
     DOTDOT \o SL \o <<"r">> \o SL \o n_a_py, n_proj, DOT,
     n_proj \o SL \o n_PyYAML \o SUF_PY, n_proj \o SL \o n_yaml \o SUF_PY}

\* file contents: no import; a renamed import; a standard-library, a local
\* and an external import; an import name together with its distribution
\* name; two more renamed imports
ToolContents ==
    {<<STMT, NL>>,
     <<Imp(<<n_yaml>>), NL>>,
     <<Imp(<<n_os, n_x>>), NL, From(<< <<"a">> >>, n_x), NL, Imp(<<n_numpy>>), NL>>,
     <<Imp(<<n_yaml>>), NL, ImpAs(<<n_PyYAML>>, n_x), NL, Imp(<<n_bs4>>)>>,
     <<From(<<n_PIL, n_x>>, n_x), NL, ImpAs(<<n_cv2>>, n_x), NL>>}

InitTools ==
    /\ IdleRun
    /\ reloc = [p |-> <<>>, d |-> <<>>, out |-> <<>>]
    /\ tool = IdleTool

ToolsWrite ==
    /\ tool.n < MaxToolOps
    /\ \E rel \in ToolPaths, content \in ToolContents :
          LET w == Tools_write(tool.disk, rel, content)
          IN tool' = [disk |-> w.disk, op |-> "write", rels |-> <<rel>>,
                      err |-> w.err, n |-> tool.n + 1]
    /\ UNCHANGED <<runVars, reloc>>

ToolsRead ==
    /\ tool.n < MaxToolOps
    /\ \E rel \in ToolPaths :
          LET r == Tools_read(tool.disk, rel)
          IN tool' = [disk |-> tool.disk, op |-> "read", rels |-> <<rel>>,
                      err |-> r.err, n |-> tool.n + 1]
    /\ UNCHANGED <<runVars, reloc>>

ToolsGenerate ==
    /\ tool.n < MaxToolOps
    /\ \E out \in ToolPaths, scan \in ToolPaths :
          LET g == generate_requirements_txt_from_imports(tool.disk, out, <<scan>>)
          IN tool' = [disk |-> g.disk, op |-> "generate", rels |-> <<out, scan>>,
                      err |-> g.err, n |-> tool.n + 1]
    /\ UNCHANGED <<runVars, reloc>>

NextTools ==
    \/ ToolsWrite
    \/ ToolsRead
    \/ ToolsGenerate

SpecTools == InitTools /\ [][NextTools]_vars

(***************************************************************************)
(* _enforce_same_folder_imports applied repeatedly to a project directory, *)
(* then generate_requirements_txt_from_imports, where single files cannot  *)
(* be read or written                                                      *)
(***************************************************************************)
MaxRewrites == 2
MaxLines == 2

\* one line each: the four shapes below "proj", a chain of shape 1 and
\* shape 4, the shapes below "proj.sub", no import, an empty line, an
\* indented import, an import followed by a blank, an import followed by
\* more text
RewriteLines ==
    {<<From(<<n_proj, n_helper>>, n_x)>>,
     <<ImpAs(<<n_proj, n_helper>>, n_x)>>,
     <<Imp(<<n_proj, n_helper>>)>>,
     <<From(<<n_proj>>, n_helper)>>,
     <<From(<<n_proj, n_proj>>, n_x)>>,
     <<Imp(<<n_proj, n_sub, n_helper>>)>>,
     <<From(<<n_proj, n_sub>>, n_helper)>>,
     <<STMT>>,
     <<>>,
     <<SP, Imp(<<n_proj, n_helper>>)>>,
     <<Imp(<<n_proj, n_helper>>), SP>>,
     <<Imp(<<n_proj, n_helper>>), SP, STMT>>}

RECURSIVE LinesUpTo(_)
LinesUpTo(k) ==
    IF k = 0 THEN {<<>>}
    ELSE LinesUpTo(k - 1)
           \cup {Append(ls, l) : ls \in {x \in LinesUpTo(k - 1) : Len(x) = k - 1},
                                 l \in RewriteLines}

\* the lines joined by newlines, with and without a final newline
RewriteTexts ==
    UNION {{JoinLines(ls), JoinLines(ls) \o <<NL>>} :
              ls \in LinesUpTo(MaxLines) \ {<<>>}}

RewriteDirs == {n_proj, n_proj \o SL \o n_sub}

\* a.py holds the text under test; b.py and d.py/m.py are its neighbours,
\* d.py being a directory that rglob("*.py") yields
StageDisk(dir, text) ==
    (ResolveInRepo(dir \o SL \o n_a_py) :> text)
      @@ (ResolveInRepo(dir \o SL \o <<"b">> \o SUF_PY)
            :> <<Imp(<<n_proj, n_helper>>), NL, Imp(<<n_numpy>>), NL>>)
      @@ (ResolveInRepo(dir \o SL \o <<"d">> \o SUF_PY \o SL \o n_mod \o SUF_PY)
            :> <<From(<<n_proj, n_helper>>, n_x), NL, Imp(<<n_yaml>>), NL>>)

\* the files the environment refuses to read and to write: none; a.py not
\* readable; a.py not writable; b.py not readable and a.py not writable
StageFaults(dir) ==
    LET a == ResolveInRepo(dir \o SL \o n_a_py)
        b == ResolveInRepo(dir \o SL \o <<"b">> \o SUF_PY)
    IN {[noread |-> {}, nowrite |-> {}],
        [noread |-> {a}, nowrite |-> {}],
        [noread |-> {}, nowrite |-> {a}],
        [noread |-> {b}, nowrite |-> {a}]}

InitStages ==
    /\ IdleRun
    /\ reloc = [p |-> <<>>, d |-> <<>>, out |-> <<>>]
    /\ \E dir \in RewriteDirs, text \in RewriteTexts :
       \E env \in StageFaults(dir) :
          tool = [disk |-> StageDisk(dir, text), op |-> "none",
                  rels |-> <<dir>>, err |-> "none", n |-> 0,
                  noread |-> env.noread, nowrite |-> env.nowrite]

RewriteStage ==
    /\ tool.op \in {"none", "rewrite"}
    /\ tool.n < MaxRewrites
    /\ tool' = [tool EXCEPT
                  !.disk = enforce_imports_io(tool.disk, tool.rels[1],
                                              tool.noread, tool.nowrite),
                  !.op = "rewrite",
                  !.n = @ + 1]
    /\ UNCHANGED <<runVars, reloc>>

ScanStage ==
    /\ tool.op = "rewrite"
    /\ LET g == generate_requirements_io(
                    tool.disk, tool.rels[1] \o SL \o n_requirements_txt,
                    <<tool.rels[1]>>, tool.noread)
       IN tool' = [tool EXCEPT !.disk = g.disk, !.op = "generate",
                               !.err = g.err]
    /\ UNCHANGED <<runVars, reloc>>

NextStages ==
    \/ RewriteStage
    \/ ScanStage

SpecStages == InitStages /\ [][NextStages]_vars

(***************************************************************************)
(* Properties                                                              *)
(***************************************************************************)
\* parse_files_json has run in this run of create_program
Parsed == pc \in {"write", "init", "reqs", "done"} /\ plan # <<>>

\* the calls of tools.write that wrote a file of the draft
RECURSIVE FileWrites(_)
FileWrites(log) ==
    IF log = <<>> THEN <<>>
    ELSE IF Head(log).kind = "file" THEN <<Head(log)>> \o FileWrites(Tail(log))
    ELSE FileWrites(Tail(log))

\* C1: every relative path handed to Tools.write / read /
\* generate_requirements_txt_from_imports whose resolved path is neither the
\* repository root nor a descendant of it is rejected with the path-safety
\* error, and no file is ever written outside the repository root.
C1_PathSandbox ==
    /\ (tool.op # "none"
          /\ \E i \in 1..Len(tool.rels) : ~InsideRepo(ResolveInRepo(tool.rels[i])))
         => tool.err = "ValueError"
    /\ \A f \in DOMAIN tool.disk : InsideRepo(f)

\* C2: relocating an already relocated path changes nothing:
\* relocate(relocate(p, d), d) = relocate(p, d) for all p and d.
C2_RelocateIdempotent ==
    Len(reloc.out) >= 2 => reloc.out[2] = reloc.out[1]

\* C3: in multi-file mode every file that create_program writes for a key of
\* the FileSet lies, after path resolution, inside Path(module_path).parent.
C3_WritesUnderProjectRoot ==
    Truthy(files_map) =>
        \A i \in 1..Len(writes) :
            (writes[i].kind = "file" /\ writes[i].err = "none")
                => IsPrefixSeq(ResolveInRepo(module_dir),
                               ResolveInRepo(writes[i].path))

\* C4: for the draft {"app.py": "import helper\n", "helper.py": "x=1\n"} and
\* the entry path proj/app.py on an empty tree, the finished run is a success,
\* proj/app.py and proj/helper.py are on disk and proj/requirements.txt holds
\* the empty string.
C4_ProjectRelativeScenario ==
    (/\ pc = "done"
     /\ module_path = p_proj_app_py
     /\ NonWs(draft_raw) = <<Obj(1)>>
     /\ ~IsFile(disk, Resolved(p_proj_old_py)))
        => /\ result.status = "ok"
           /\ IsFile(disk, Resolved(p_proj_app_py))
           /\ IsFile(disk, Resolved(p_proj_helper_py))
           /\ IsFile(disk, Resolved(p_proj_requirements_txt))
           /\ disk[Resolved(p_proj_requirements_txt)] = <<>>

\* C5: whenever create_program returns a success result, a file exists at the
\* entry module path and a manifest exists at <ProjectRoot>/requirements.txt.
C5_SuccessLeavesEntryAndManifest ==
    result.status = "ok"
        => /\ IsFile(disk, ResolveInRepo(module_path))
           /\ IsFile(disk, ResolveInRepo(auto_req_path))

\* the draft holds exactly one brace-delimited block and it is a JSON object:
\* the object that the direct decode or else the brace extraction decodes
HasOneObject(d) ==
    /\ Cardinality({i \in 1..Len(d) : d[i].k \in {"obj", "junk"}}) = 1
    /\ \E i \in 1..Len(d) : d[i].k = "obj"

ObjectOf(d) == JsonObjects[d[CHOOSE i \in 1..Len(d) : d[i].k = "obj"].n]

\* a JSON object and nothing else, but for one code fence and white space
IsObjectDraft(d) ==
    /\ HasOneObject(d)
    /\ \A i \in 1..Len(d) : d[i].k \in {"obj", "nl", "sp", "fence"}

PathLikeKeys(o) == {i \in 1..Len(o) : PathLike(o[i].key)}

AllStrings(o) == \A i \in 1..Len(o) : o[i].isstr

\* C6: a draft whose decoded top-level object has no path-like key is rejected
\* with the 'no path-like keys' reason, whether the object came from the direct
\* decode or from the brace-extraction fallback.
C6_NoPathLikeKeysRejected ==
    (Parsed /\ HasOneObject(draft_raw) /\ PathLikeKeys(ObjectOf(draft_raw)) = {})
        => (~files_map.ok /\ files_map.reason = R_NO_PATHS)

\* The four input classes of C7: (a) an empty draft, (b) text with no JSON
\* object, (c) an object of strings with no path-like key, (d) an object with
\* a path-like key and a value that is not a string
ClassOf(d) ==
    IF StripText(d) = <<>> THEN "a"
    ELSE IF \A i \in 1..Len(d) : d[i].k # "obj" THEN "b"
    ELSE IF ~HasOneObject(d) THEN ""
    ELSE IF PathLikeKeys(ObjectOf(d)) = {} /\ AllStrings(ObjectOf(d)) THEN "c"
    ELSE IF PathLikeKeys(ObjectOf(d)) # {} /\ ~AllStrings(ObjectOf(d)) THEN "d"
    ELSE ""

\* the class and the reason of every draft that parse_files_json rejects
FailReasons ==
    {<<ClassOf(d), parse_files_json(d).reason>> :
         d \in {e \in Drafts : ClassOf(e) # "" /\ ~parse_files_json(e).ok}}

\* C7 (as claimed): the failures of the classes (a), (b), (c), (d) carry four
\* pairwise-distinct reasons: no two drafts of different classes are rejected
\* with the same reason string.
C7_FourDistinctReasons ==
    (Parsed /\ ~files_map.ok /\ ClassOf(draft_raw) # "")
        => \A cr \in FailReasons :
               cr[1] # ClassOf(draft_raw) => cr[2] # files_map.reason

\* (a) and (b) taken as one class
Merged(c) == IF c = "a" THEN "b" ELSE c

\* C7 (amended): an empty draft is rejected with the reason of text that
\* holds no JSON object, "Model did not return valid JSON object for files.";
\* the failures of the three classes (a)+(b), (c) and (d) carry pairwise
\* distinct reasons.
C7_ThreeDistinctReasons ==
    (Parsed /\ ~files_map.ok /\ ClassOf(draft_raw) # "")
        => /\ ClassOf(draft_raw) = "a" => files_map.reason = R_NOT_JSON
           /\ \A cr \in FailReasons :
                  Merged(cr[1]) # Merged(ClassOf(draft_raw))
                      => cr[2] # files_map.reason

\* C7 witness: an empty draft has been parsed and rejected, and a draft of
\* class (b) is rejected with the same reason
C7_Witness ==
    /\ Parsed /\ ~files_map.ok /\ ClassOf(draft_raw) = "a"
    /\ <<"b", files_map.reason>> \in FailReasons

\* C8 (as claimed): for a valid JSON-object draft with at least two path-like
\* keys and string values, parse_files_json returns exactly the object's keys
\* with the values already normalized (trailing white space trimmed, one
\* final newline).
C8_ParserReturnsNormalized ==
    (/\ Parsed /\ IsObjectDraft(draft_raw)
     /\ Cardinality(PathLikeKeys(ObjectOf(draft_raw))) >= 2
     /\ AllStrings(ObjectOf(draft_raw)))
        => /\ files_map.ok
           /\ Len(files_map.files) = Len(ObjectOf(draft_raw))
           /\ \A i \in 1..Len(files_map.files) :
                  /\ files_map.files[i].key = ObjectOf(draft_raw)[i].key
                  /\ files_map.files[i].val
                         = RStripText(ObjectOf(draft_raw)[i].val) \o <<NL>>

\* C8 (amended): for such a draft parse_files_json returns exactly the
\* object's keys with the object's values unchanged; create_program
\* normalizes each value (trailing white space trimmed, exactly one final
\* newline) when it writes the file.
C8_KeysExactValuesNormalizedOnWrite ==
    (/\ Parsed /\ IsObjectDraft(draft_raw)
     /\ Cardinality(PathLikeKeys(ObjectOf(draft_raw))) >= 2
     /\ AllStrings(ObjectOf(draft_raw)))
        => /\ files_map.ok
           /\ Len(files_map.files) = Len(ObjectOf(draft_raw))
           /\ \A i \in 1..Len(files_map.files) :
                  /\ files_map.files[i].key = ObjectOf(draft_raw)[i].key
                  /\ files_map.files[i].val = ObjectOf(draft_raw)[i].val
           /\ \A j \in 1..Len(FileWrites(writes)) :
                  FileWrites(writes)[j].content
                      = RStripText(ObjectOf(draft_raw)[j].val) \o <<NL>>

\* C8 witness: a fenced object with padded and empty values was parsed and
\* all three of its files were written, one of them changed by normalizing
C8_Witness ==
    /\ pc = "done" /\ IsObjectDraft(draft_raw)
    /\ \E i \in 1..Len(draft_raw) : draft_raw[i].k = "fence"
    /\ Len(ObjectOf(draft_raw)) = 3
    /\ Len(FileWrites(writes)) = 3
    /\ \E j \in 1..3 : FileWrites(writes)[j].content # files_map.files[j].val

\* C9: when the parsed FileSet has fewer than two .py keys, create_program
\* ends with a failure whose message gives the number of .py keys found and
\* lists them, and nothing is written (no single-file fallback).
C9_TooFewSourceFilesIsFatal ==
    (/\ Parsed /\ files_map.ok
     /\ Cardinality({i \in 1..Len(files_map.files) :
                        EndsWith(files_map.files[i].key, SUF_PY)}) < 2)
        => /\ pc = "done"
           /\ result.status = "fail"
           /\ result.kind = "too_few_py"
           /\ result.count = Cardinality({i \in 1..Len(files_map.files) :
                                 EndsWith(files_map.files[i].key, SUF_PY)})
           /\ Len(result.files) = result.count
           /\ \A i \in 1..Len(files_map.files) :
                  EndsWith(files_map.files[i].key, SUF_PY)
                      => \E j \in 1..Len(result.files) :
                             result.files[j] = files_map.files[i].key
           /\ writes = <<>>
           /\ written_paths = <<>>
           /\ disk \in InitialDisks

\* C9 witness: a parsed FileSet with exactly one .py key ended the run
C9_Witness ==
    /\ Parsed /\ files_map.ok /\ Len(files_map.files) = 2
    /\ result.kind = "too_few_py" /\ result.count = 1

\* C10: when parse_files_json fails and the fence-stripped draft is not empty,
\* create_program ends in success, having written exactly one draft file, at
\* the entry module path, holding the fence-stripped draft without trailing
\* white space plus one newline.
C10_MalformedResponseFallsBack ==
    (/\ Parsed /\ pc = "done" /\ ~files_map.ok
     /\ strip_code_fences(draft_raw) # <<>>)
        => /\ result.status = "ok"
           /\ FileWrites(writes)
                = <<WriteRec("file", module_path,
                             RStripText(strip_code_fences(draft_raw)) \o <<NL>>,
                             "none")>>

\* the failure and success messages create_program can return, each with its
\* class, over the entry paths, counts and file lists of the model
KnownMessages ==
    {<<"empty_plan", MsgEmptyPlan>>, <<"empty_draft", MsgEmptyDraft>>}
      \cup {<<"too_few_py", MsgTooFew(n, fs)>> :
                n \in 0..1, fs \in {<<>>} \cup {<<mp>> : mp \in ModulePaths}}
      \cup {<<"missing_entry", MsgMissingEntry(mp)>> : mp \in ModulePaths}
      \cup {<<"ok", MsgWroteModule(mp, ParentPosix(mp))>> : mp \in ModulePaths}
      \cup {<<"ok", MsgWroteFiles(n, mp, ParentPosix(mp))>> :
                n \in 0..3, mp \in ModulePaths}

\* C11: an empty or white-space plan ends create_program with the 'empty
\* plan' failure, no draft requested and nothing written; an empty draft ends
\* it with the 'empty draft' failure and nothing written; the messages of the
\* four failures (empty plan, empty draft, too few files, missing entry) are
\* pairwise distinct and differ from every success message.
C11_UpstreamEmptyIsFatal ==
    /\ (pc # "plan" /\ plan = <<>>)
          => /\ pc = "done" /\ result.status = "fail"
             /\ Message(result) = MsgEmptyPlan
             /\ draft_raw = <<>> /\ files_map = NoParse
             /\ writes = <<>> /\ disk \in InitialDisks
    /\ (Parsed /\ StripText(draft_raw) = <<>>)
          => /\ writes = <<>> /\ disk \in InitialDisks
             /\ pc = "done" => /\ result.status = "fail"
                               /\ Message(result) = MsgEmptyDraft
    /\ (pc = "done" /\ result.status = "fail")
          => /\ result.kind \in {"empty_plan", "empty_draft", "too_few_py",
                                 "missing_entry"}
             /\ \A km \in KnownMessages :
                    km[1] # result.kind => km[2] # Message(result)

\* C11 witness: a white-space draft ended the run with the 'empty draft'
\* failure on a tree that held an earlier project
C11_Witness ==
    /\ pc = "done" /\ plan # <<>>
    /\ draft_raw # <<>> /\ StripText(draft_raw) = <<>>
    /\ Message(result) = MsgEmptyDraft /\ disk = OldDisk

\* the next call of _ensure_init_chain_for_path in the run, and its argument
InitChainCall == pc = "init" /\ idx <= Len(SelectPy(written_paths))

InitChainArg == SelectPy(written_paths)[idx]

\* the first segment of the path is the package root r
UnderPackageRoot(rel, r) ==
    /\ r \notin {<<>>, DOT}
    /\ ~PathParts(_norm_rel(rel)).abs
    /\ RelParts(_norm_rel(rel)) # <<>>
    /\ RelParts(_norm_rel(rel))[1] = r

\* the files of d2 that d1 does not hold
NewFiles(d1, d2) == {f \in DOMAIN d2 : f \notin DOMAIN d1}

\* C12: a call of _ensure_init_chain_for_path for a source file whose first
\* segment is the package root r leaves an __init__.py in r and in every
\* directory from r down to the file's parent; a call for a file whose first
\* segment is not r changes nothing; and every marker a call creates lies in
\* r or in a descendant of r that is an ancestor of the file.
C12_ChainCompleteAndConfined ==
    [][InitChainCall =>
         LET rel == InitChainArg
             parts == RelParts(_norm_rel(rel))
             file == ResolveInRepo(rel)
             root == ResolveInRepo(package_root)
         IN IF UnderPackageRoot(rel, package_root)
            THEN /\ \A k \in 1..(Len(parts) - 1) :
                        IsFile(disk', ResolveInRepo(JoinSlash(SubSeq(parts, 1, k)))
                                          \o <<INIT_PY>>)
                 /\ IsFile(disk', root \o <<INIT_PY>>)
                 /\ \A f \in NewFiles(disk, disk') :
                        /\ PathName(f) = INIT_PY
                        /\ IsPrefixSeq(root, f)
                        /\ IsPrefixSeq(SubSeq(f, 1, Len(f) - 1), file)
                        /\ Len(f) <= Len(file)
            ELSE disk' = disk /\ writes' = writes]_vars

\* _enforce_same_folder_imports has run in this run of create_program
Rewritten == pc = "reqs" \/ (pc = "done" /\ result.status = "ok")

\* the dotted prefix of the project directory
PkgPrefix == SplitSlash(module_dir)

\* an import statement at column 0 whose module is qualified by the prefix
QualifiedImportAt(text, i, prefix) ==
    /\ text[i].k \in {"import", "importas", "from"}
    /\ AtLineStart(text, i)
    /\ IsPrefixSeq(prefix, text[i].v)
    /\ (Len(text[i].v) > Len(prefix) \/ text[i].k = "from")

\* C13: after _enforce_same_folder_imports has run on the project directory
\* with dotted prefix P, no .py file under that directory holds a column-0
\* import statement whose module is qualified by P.
C13_NoQualifiedImportsLeft ==
    (Rewritten /\ module_dir \notin {DOT, <<>>})
        => \A f \in RGlobPy(disk, ResolveInRepo(module_dir)) :
               \A i \in 1..Len(disk[f]) :
                   ~QualifiedImportAt(disk[f], i, PkgPrefix)

\* a call of generate_requirements_txt_from_imports that returned
Generated ==
    tool'.op = "generate" /\ tool'.n = tool.n + 1 /\ tool'.err = "none"

\* the names on the lines of a manifest
ReqNames(text) == {text[i].v[1] : i \in {j \in 1..Len(text) : text[j].k = "req"}}

\* the manifest the call wrote, and the roots it scanned
WrittenManifest == tool'.disk[ResolveInRepo(tool'.rels[1])]

ScanRoots == {ResolveInRepo(tool'.rels[2])}

\* the .py files that are a scan root or lie under one
LocalSourceFiles(d, roots) ==
    {f \in DOMAIN d : /\ HasPySuffix(PathName(f))
                      /\ \E r \in roots : IsPrefixSeq(r, f)}

\* the directories at or under a scan root that hold an __init__.py
LocalPackageDirs(d, roots) ==
    {SubSeq(f, 1, Len(f) - 1) :
         f \in {g \in DOMAIN d : /\ PathName(g) = INIT_PY
                                 /\ \E r \in roots : IsPrefixSeq(r, g)
                                 /\ Len(g) > 1}}

\* C14: the manifest written by generate_requirements_txt_from_imports holds,
\* after the rename table has been applied, no standard-library module name,
\* no stem of a local .py file and no name of a local directory that holds an
\* __init__.py under the scan roots.
C14_ManifestExcludesStdlibAndLocal ==
    [][Generated =>
         \A nm \in ReqNames(WrittenManifest) :
             /\ nm \notin StdlibNames
             /\ \A f \in LocalSourceFiles(tool.disk, ScanRoots) :
                    nm # Stem(PathName(f))
             /\ \A dir \in LocalPackageDirs(tool.disk, ScanRoots) :
                    nm # PathName(dir)]_vars

\* the import names of the local source files that parse
ScannedImports(d, roots) ==
    UNION {ImportNames(d[f]) :
               f \in {g \in LocalSourceFiles(d, roots) : ParsesAsPython(d[g])}}

\* C14 (amended): every line of the manifest written by
\* generate_requirements_txt_from_imports is the rename-table image of an
\* import name of a scanned file that is itself, before the rename table is
\* applied, no standard-library module name, no stem of a local .py file and
\* no name of a local directory that holds an __init__.py.
C14_ManifestFromNonLocalImports ==
    [][Generated =>
         \A nm \in ReqNames(WrittenManifest) :
             \E m \in ScannedImports(tool.disk, ScanRoots) :
                 /\ mapping(m) = nm
                 /\ m \notin StdlibNames
                 /\ \A f \in LocalSourceFiles(tool.disk, ScanRoots) :
                        m # Stem(PathName(f))
                 /\ \A dir \in LocalPackageDirs(tool.disk, ScanRoots) :
                        m # PathName(dir)]_vars

\* C14 witness: a scan of a.py, which imports os.x, the local module a and
\* numpy, wrote a manifest that holds numpy alone
C14_Witness ==
    /\ tool.op = "generate" /\ tool.err = "none"
    /\ tool.rels = <<n_proj \o SL \o n_a_py, n_a_py>>
    /\ IsFile(tool.disk, ResolveInRepo(n_a_py))
    /\ ImportNames(tool.disk[ResolveInRepo(n_a_py)]) = {n_os, <<"a">>, n_numpy}
    /\ tool.disk[ResolveInRepo(n_proj \o SL \o n_a_py)] = <<Req(n_numpy), NL>>

IsReqTok(t) == t.k = "req"

\* the names of a manifest, line by line
ReqLines(text) ==
    [i \in 1..Len(SelectSeq(text, IsReqTok)) |-> SelectSeq(text, IsReqTok)[i].v[1]]

\* C15: the lines of the manifest written by
\* generate_requirements_txt_from_imports are in ascending sorted order and no
\* name is on more than one line, also when the scanned files import both a
\* name of the rename table and its distribution name (yaml and PyYAML).
C15_ManifestSortedDeduplicated ==
    (tool.op = "generate" /\ tool.err = "none")
        => LET lines == ReqLines(tool.disk[ResolveInRepo(tool.rels[1])])
           IN \A i, j \in 1..Len(lines) :
                  i < j => /\ StrLeq(lines[i], lines[j])
                           /\ lines[i] # lines[j]

\* the keys of the rename table
RenameKeys == {n_yaml, n_bs4, n_PIL, n_cv2}

\* the name is a local module of the scan: a file stem or a package directory
IsLocalName(m, d, roots) ==
    \/ \E f \in LocalSourceFiles(d, roots) : m = Stem(PathName(f))
    \/ \E dir \in LocalPackageDirs(d, roots) : m = PathName(dir)

\* C16: when a scanned source file imports a key of the rename table (yaml,
\* bs4, PIL, cv2) that is neither a standard-library name nor local, the
\* manifest holds the distribution name (PyYAML, beautifulsoup4, Pillow,
\* opencv-python) and does not hold the import name.
C16_RenameTableApplied ==
    [][Generated =>
         \A m \in ScannedImports(tool.disk, ScanRoots) \cap RenameKeys :
             (m \notin StdlibNames /\ ~IsLocalName(m, tool.disk, ScanRoots))
                 => /\ mapping(m) # m
                    /\ mapping(m) \in ReqNames(WrittenManifest)
                    /\ m \notin ReqNames(WrittenManifest)]_vars

\* C16 witness: a scan of a file that imports PIL.x and cv2 wrote the
\* manifest Pillow, opencv-python
C16_Witness ==
    /\ tool.op = "generate" /\ tool.err = "none"
    /\ \E f \in DOMAIN tool.disk : ImportNames(tool.disk[f]) = {n_PIL, n_cv2}
    /\ tool.disk[ResolveInRepo(tool.rels[1])]
         = <<Req(n_Pillow), NL, Req(n_opencv_python), NL>>

\* <ProjectRoot>/requirements.txt
ManifestPath == ResolveInRepo(auto_req_path)

\* the files of the draft that were written at the manifest path
RECURSIVE ModelManifests(_)
ModelManifests(log) ==
    IF log = <<>> THEN <<>>
    ELSE IF /\ Head(log).kind = "file" /\ Head(log).err = "none"
            /\ ResolveInRepo(Head(log).path) = ManifestPath
         THEN <<Head(log)>> \o ModelManifests(Tail(log))
         ELSE ModelManifests(Tail(log))

\* the calls of generate_requirements_txt_from_imports in the run
InfererCalls == {i \in 1..Len(writes) : writes[i].kind = "manifest"}

\* the import names of the .py files under the project directory
ProjectImports ==
    UNION {ImportNames(disk[f]) :
               f \in {g \in RGlobPy(disk, ResolveInRepo(module_dir)) :
                          ParsesAsPython(disk[g])}}

\* C17: when a key of the FileSet relocates to <ProjectRoot>/requirements.txt
\* the DependencyInferer is not invoked in the run and the manifest on disk at
\* the end of the run holds the model's normalized content; otherwise a run
\* that succeeds has regenerated the manifest from the scan alone, and what
\* the manifest held before the run is overwritten, not merged.
C17_ModelManifestPreserved ==
    pc = "done" =>
        IF ModelManifests(writes) # <<>>
        THEN /\ InfererCalls = {}
             /\ IsFile(disk, ManifestPath)
             /\ disk[ManifestPath]
                  = ModelManifests(writes)[Len(ModelManifests(writes))].content
             /\ \E i \in 1..Len(files_map.files) :
                    disk[ManifestPath] = Normalized(files_map.files[i].val)
        ELSE result.status = "ok"
               => /\ Cardinality(InfererCalls) = 1
                  /\ IsFile(disk, ManifestPath)
                  /\ \A i \in InfererCalls : disk[ManifestPath] = writes[i].content
                  /\ \A nm \in ReqNames(disk[ManifestPath]) :
                         \E m \in ProjectImports : nm = mapping(m)

\* the entry path has no directory component
RootLevelEntry == ParentPosix(module_path) = DOT

\* C18: for an entry path with no directory component (app.py) create_program
\* attempts no marker write and creates no __init__.py, in multi-file and in
\* single-file mode, and the run ends with a result.
C18_RootLevelEntryNoMarkers ==
    RootLevelEntry
        => /\ \A i \in 1..Len(writes) : writes[i].kind # "marker"
           /\ \A f \in DOMAIN disk :
                  (PathName(f) = INIT_PY /\ f \notin DOMAIN OldDisk)
                      => \E i \in 1..Len(writes) :
                             /\ writes[i].kind = "file"
                             /\ ResolveInRepo(writes[i].path) = f
           /\ pc = "done" => result.status \in {"ok", "fail"}

\* the step of create_program that runs _enforce_same_folder_imports
RewriteStep == pc = "init" /\ pc' = "reqs"

\* the number of statements up to token i
Rank(t, i) == Len(NonWs(SubSeq(t, 1, i)))

\* token i is a column-0 line "from P.m import X"
Shape1At(t, i, prefix) ==
    t[i].k = "from" /\ AtLineStart(t, i) /\ OneBelow(t[i].v, prefix)

\* C19: a column-0 line 'from P.m import X' of a file under the project
\* directory is, after one run of _enforce_same_folder_imports, the line
\* 'from m import X' and no other statement, for every identifier m, m equal
\* to a one-segment P included.
C19_Shape1Exact ==
    [][(RewriteStep /\ module_dir \notin {DOT, <<>>}) =>
         \A f \in RGlobPy(disk, ResolveInRepo(module_dir)) :
             \A i \in 1..Len(disk[f]) :
                 Shape1At(disk[f], i, PkgPrefix)
                     => /\ Len(NonWs(disk'[f])) = Len(NonWs(disk[f]))
                        /\ NonWs(disk'[f])[Rank(disk[f], i)]
                             = From(<<disk[f][i].v[Len(disk[f][i].v)]>>,
                                    disk[f][i].w)]_vars

\* C20: a call of _ensure_init_chain_for_path leaves every __init__.py that
\* exists before the call (on disk before the run, or written from the
\* FileSet) with its content, and a second call for the same path changes
\* nothing in the tree the first call left.
C20_MarkersNeverOverwritten ==
    [][InitChainCall =>
         /\ \A f \in DOMAIN disk :
                PathName(f) = INIT_PY
                    => f \in DOMAIN disk' /\ disk'[f] = disk[f]
         /\ LET again == _ensure_init_chain_for_path(disk', writes',
                             InitChainArg, package_root)
            IN /\ again.disk = disk'
               /\ again.err = "none" => again.log = writes']_vars

\* C20 witness: a run on a tree that held proj/__init__.py, with a draft
\* that supplies proj/__init__.py and names proj/app.py twice, has called
\* _ensure_init_chain_for_path for all three written paths
C20_Witness ==
    /\ pc = "reqs"
    /\ NonWs(draft_raw) = <<Obj(17)>>
    /\ Len(SelectPy(written_paths)) = 3
    /\ written_paths[1] = written_paths[2]
    /\ IsFile(disk, Resolved(p_proj_old_py))
    /\ disk[Resolved(n_proj \o SL \o INIT_PY)] = <<Imp(<<n_numpy>>), NL>>

\* the project directory of the stage harness and its dotted prefix
StageRoot == ResolveInRepo(tool.rels[1])
StagePrefix == SplitSlash(tool.rels[1])

\* "if new_text != text": the files a run of the rewriting would write
NeedsWrite(d, root, prefix) ==
    {f \in RGlobPy(d, root) : RewriteImports(d[f], prefix) # d[f]}

\* C21: the four substitutions applied to their own output change nothing,
\* for every file content and prefix; a second run of
\* _enforce_same_folder_imports leaves the tree as the first run left it,
\* and after a run in which every file could be read and written no file is
\* left for a later run to write.
C21_RewriteIdempotent ==
    [][RewriteStage =>
         /\ \A f \in RGlobPy(tool.disk, StageRoot) :
                LET once == RewriteImports(tool.disk[f], StagePrefix)
                IN RewriteImports(once, StagePrefix) = once
         /\ tool.op = "rewrite" => tool'.disk = tool.disk
         /\ (tool.noread = {} /\ tool.nowrite = {})
                => NeedsWrite(tool'.disk, StageRoot, StagePrefix) = {}]_vars

\* C21 witness: a second run has been made over a file in which the first
\* run turned "from proj.proj import x" into "import x" (shape 1, then
\* shape 4)
C21_Witness ==
    /\ tool.op = "rewrite"
    /\ tool.n = 2
    /\ tool.rels = <<n_proj>>
    /\ tool.noread = {} /\ tool.nowrite = {}
    /\ tool.disk[ResolveInRepo(n_proj \o SL \o n_a_py)]
         = <<Imp(<<n_x>>), NL, Imp(<<n_helper>>)>>

\* the manifest of the stage harness
StageManifest == ResolveInRepo(tool.rels[1] \o SL \o n_requirements_txt)

\* the files of the project directory the scan can read and parse
StageScanned ==
    {f \in RGlobPy(tool.disk, StageRoot) :
        f \notin tool.noread /\ ParsesAsPython(tool.disk[f])}

\* C22: a file that cannot be read or written during import rewriting, or
\* cannot be read or parsed during the dependency scan, aborts neither
\* stage: every other file under the directory is rewritten, the manifest is
\* written, and it lists the external imports of every file that could be
\* read and parsed.
C22_PerFileFailuresIsolated ==
    [][/\ RewriteStage =>
            /\ tool'.err = "none"
            /\ \A f \in RGlobPy(tool.disk, StageRoot) :
                   f \notin (tool.noread \cup tool.nowrite)
                       => tool'.disk[f] = RewriteImports(tool.disk[f], StagePrefix)
       /\ ScanStage =>
            /\ tool'.err = "none"
            /\ IsFile(tool'.disk, StageManifest)
            /\ \A f \in StageScanned :
                   \A m \in ImportNames(tool.disk[f]) :
                       (/\ m \notin StdlibNames
                        /\ m \notin _collect_local_modules(tool.disk, {StageRoot}))
                           => mapping(m) \in ReqNames(tool'.disk[StageManifest])]_vars

\* C22 witness: b.py could not be read, a.py (which does not parse) could
\* not be written, the directory d.py could not be read as a file; m.py was
\* rewritten all the same and the manifest lists its two imports
C22_Witness ==
    /\ tool.op = "generate"
    /\ tool.err = "none"
    /\ tool.rels = <<n_proj>>
    /\ tool.noread = {ResolveInRepo(n_proj \o SL \o <<"b">> \o SUF_PY)}
    /\ tool.nowrite = {ResolveInRepo(n_proj \o SL \o n_a_py)}
    /\ tool.disk[ResolveInRepo(n_proj \o SL \o n_a_py)]
         = <<Imp(<<n_proj, n_helper>>), NL, SP, Imp(<<n_proj, n_helper>>)>>
    /\ tool.disk[ResolveInRepo(n_proj \o SL \o <<"b">> \o SUF_PY)][1]
         = Imp(<<n_proj, n_helper>>)
    /\ tool.disk[ResolveInRepo(n_proj \o SL \o <<"d">> \o SUF_PY
                                 \o SL \o n_mod \o SUF_PY)][1]
         = From(<<n_helper>>, n_x)
    /\ tool.disk[StageManifest] = <<Req(n_PyYAML), NL, Req(n_helper), NL>>

\* the line is one of the four column-0 shapes for the prefix
IsShapeLine(line, prefix) ==
    /\ line # <<>>
    /\ \/ line[1].k \in {"from", "importas"} /\ OneBelow(line[1].v, prefix)
       \/ /\ \/ line[1].k = "import" /\ OneBelow(line[1].v, prefix)
             \/ line[1].k = "from" /\ line[1].v = prefix
          /\ \A j \in 2..Len(line) : IsWsTok(line[j])

EndsWithNl(text) == text # <<>> /\ text[Len(text)].k = "nl"

\* C27: a run of _enforce_same_folder_imports leaves, in every file under
\* the project directory, the number of lines, every line that is not one
\* of the four column-0 import shapes, and the final newline as they were.
C27_RewriteKeepsLinesAndFinalNewline ==
    [][RewriteStage =>
         \A f \in RGlobPy(tool.disk, StageRoot) :
             LET old == SplitLines(tool.disk[f])
                 new == SplitLines(tool'.disk[f])
             IN /\ Len(new) = Len(old)
                /\ EndsWithNl(tool'.disk[f]) <=> EndsWithNl(tool.disk[f])
                /\ \A i \in 1..Len(old) :
                       ~IsShapeLine(old[i], StagePrefix)
                           => i <= Len(new) /\ new[i] = old[i]]_vars

\* the stage a logged write belongs to
StageOfKind(kind) ==
    CASE kind = "file" -> 1
      [] kind = "marker" -> 2
      [] kind = "manifest" -> 3

\* the dependency scan has started (or is over)
ScanStarted == pc \in {"reqs", "done"}

\* C23: in every run of create_program the writes come in the order of the
\* stages: every file of the draft before the first marker, every marker
\* before the import rewriting, which happens in one step after the last
\* marker and before the dependency scan; once the scan has started nothing
\* but the manifest is created or modified.
C23_StageOrder ==
    [][/\ SubSeq(writes', 1, Len(writes)) = writes
       /\ \A i \in 1..Len(writes') : \A j \in i..Len(writes') :
              StageOfKind(writes'[i].kind) <= StageOfKind(writes'[j].kind)
       /\ (disk' # disk /\ writes' = writes) => RewriteStep
       /\ RewriteStep
            => /\ writes' = writes
               /\ \A i \in 1..Len(writes) : writes[i].kind # "manifest"
       /\ ScanStarted
            => /\ ScanStarted'
               /\ \A i \in (Len(writes) + 1)..Len(writes') :
                      writes'[i].kind = "manifest"
               /\ DOMAIN disk' \ {ManifestPath} = DOMAIN disk \ {ManifestPath}
               /\ \A f \in DOMAIN disk \ {ManifestPath} : disk'[f] = disk[f]]_vars

\* C23 witness: a successful run that wrote two files or more, created a
\* marker, rewrote an import of a file it had written, and wrote the
\* manifest
C23_Witness ==
    /\ pc = "done"
    /\ result.status = "ok"
    /\ Len(FileWrites(writes)) >= 2
    /\ \E i \in 1..Len(writes) : writes[i].kind = "marker"
    /\ writes[Len(writes)].kind = "manifest"
    /\ \E i \in 1..Len(writes) :
          /\ writes[i].kind = "file"
          /\ \A j \in (i + 1)..Len(writes) :
                 ResolveInRepo(writes[j].path) # ResolveInRepo(writes[i].path)
          /\ disk[ResolveInRepo(writes[i].path)] # writes[i].content

\* no trailing white space other than exactly one final newline
OneFinalNewline(c) ==
    /\ c # <<>>
    /\ c[Len(c)] = NL
    /\ Len(c) > 1 => ~IsWsTok(c[Len(c) - 1])

WrittenFiles == {ResolveInRepo(written_paths[i]) : i \in 1..Len(written_paths)}

\* C25: in multi-file mode distinct keys of the FileSet are written to
\* distinct files, so that no key's content is replaced by another key's in
\* the same run, and the N of "Wrote N files" is the number of distinct
\* files written.
C25_RelocationLosesNoFile ==
    Truthy(files_map)
        => /\ \A i \in 1..Len(written_paths) : \A j \in 1..Len(written_paths) :
                  files_map.files[i].key # files_map.files[j].key
                      => ResolveInRepo(written_paths[i])
                             # ResolveInRepo(written_paths[j])
           /\ (pc = "done" /\ result.status = "ok" /\ result.kind = "wrote_files")
                  => result.count = Cardinality(WrittenFiles)

\* the run has ended with one of the two structural failures
StructuralFailure ==
    /\ pc = "done"
    /\ result.status = "fail"
    /\ result.kind \in {"too_few_py", "missing_entry"}

\* C26: when create_program returns the too-few-files failure or the
\* missing-entrypoint failure, the run has written no file of the draft, no
\* marker and no manifest and has rewritten nothing: the tree is as it was
\* before the run.
C26_StructuralFailureWritesNothing ==
    StructuralFailure => writes = <<>> /\ disk \in InitialDisks

====
